---- MODULE Spec2Model ----
(***************************************************************************)
(* A model of AutoReadMe's repository analyzer (src/github_analyzer.py).   *)
(*                                                                         *)
(* Text that the code inspects character by character (the repository URL, *)
(* the content of requirements.txt) is a sequence of one-character strings.*)
(* Text that the code only compares as a whole or appends (file names,     *)
(* framework labels, instruction lines) is an atomic string.               *)
(***************************************************************************)
EXTENDS Integers, Sequences, FiniteSets, TLC

VARIABLES
    pc,            \* where analyze_repository stands: "parse", "repo_info", ..., "done", "failed"
    err,           \* the exception that ended the analysis, NoError while there is none
    url_case,      \* how the URL under test was put together (scheme, host, owner, repo, tail)
    github_url,    \* the URL text handed to parse_github_url
    parsed,        \* what parse_github_url answered, NotCalled before the call
    world,         \* the remote repository: its info, languages, listings and blobs
    requests,      \* every HTTP request issued so far, in order
    repo_info,     \* analyze_repository's locals, None until assigned
    languages,
    root_contents,
    file_names,
    flags,
    file_idx,      \* position of the important-files loop
    manifest_case, \* how the requirements text under test was put together
    file_contents,
    framework,
    dependencies,
    max_depth,     \* build_file_structure's max_depth argument
    stack,         \* the frames of build_file_structure's recursion, innermost last
    file_structure,
    analysis,      \* the RepoAnalysis returned, None until then
    ui,            \* where the page script stands: "idle", or "analyzing" inside the try block
    clicks,        \* how many times 'Analyze Repository' was clicked
    github_token,  \* st.session_state.github_token
    repo_url,      \* the text of the URL input at the last click
    analysis_result, \* st.session_state.analysis_result
    message,       \* the message the last click displayed
    download       \* what the download button offers, NoDownload when it is not shown

urlVars == <<url_case, github_url, parsed>>
netVars == <<world, requests>>
fetchVars == <<repo_info, languages, root_contents, file_names, flags, file_idx>>
depVars == <<manifest_case, file_contents, framework, dependencies>>
walkVars == <<max_depth, stack, file_structure>>
uiVars == <<ui, clicks, github_token, repo_url, analysis_result, message, download>>
vars == <<pc, err, urlVars, netVars, fetchVars, depVars, walkVars, analysis, uiVars>>

None == "None"
NoError == "NoError"
NotCalled == [status |-> "not_called"]

(***************************************************************************)
(* Character sequences.                                                    *)
(***************************************************************************)
RECURSIVE Flatten(_)
Flatten(ss) == IF ss = <<>> THEN <<>> ELSE Head(ss) \o Flatten(Tail(ss))

\* every sequence over alphabet of length lo..hi
SeqsOf(alphabet, lo, hi) == UNION {[1..n -> alphabet] : n \in lo..hi}

\* s[i..] starts with lit
StartsWithAt(s, i, lit) ==
    /\ i + Len(lit) - 1 <= Len(s)
    /\ \A k \in 1..Len(lit) : s[i + k - 1] = lit[k]

IsSubstr(lit, s) == \E i \in 1..(Len(s) + 1) : StartsWithAt(s, i, lit)

\* str.rstrip(chars): drops from the right every character that is in the SET chars
RECURSIVE rstrip(_, _)
rstrip(s, chars) ==
    IF Len(s) > 0 /\ s[Len(s)] \in chars
    THEN rstrip(SubSeq(s, 1, Len(s) - 1), chars)
    ELSE s

\* the end (exclusive) of the maximal run of characters other than c that starts at i
RECURSIVE RunEnd(_, _, _)
RunEnd(s, i, c) == IF i <= Len(s) /\ s[i] # c THEN RunEnd(s, i + 1, c) ELSE i

(***************************************************************************)
(* parse_github_url                                                        *)
(***************************************************************************)
GithubCom == <<"g", "i", "t", "h", "u", "b", ".", "c", "o", "m", "/">>

\* the argument of rstrip('.git'), a set of characters to Python
DotGitChars == {".", "g", "i", "t"}

\* the two groups without the literal github\.com/ ahead of them
GroupsAt_AnyHost(s, i) ==
    LET o2 == RunEnd(s, i, "/")
        r1 == o2 + 1
        r2 == RunEnd(s, r1, "/")
    IN  [ok |-> /\ o2 > i /\ o2 <= Len(s) /\ s[o2] = "/"
                /\ r2 > r1,
         owner |-> SubSeq(s, i, o2 - 1),
         repo |-> SubSeq(s, r1, r2 - 1),
         rest |-> r2]

\* github\.com/([^/]+)/([^/]+) tried at position i: where the two groups lie.
\* [^/]+ cannot cross a '/', and what follows each group (a '/', or the end) cannot
\* be matched inside it, so each group is the maximal run of non-'/' characters.
GroupsAt(s, i) ==
    LET o1 == i + Len(GithubCom)
        o2 == RunEnd(s, o1, "/")
        r1 == o2 + 1
        r2 == RunEnd(s, r1, "/")
    IN  [ok |-> /\ StartsWithAt(s, i, GithubCom)
                /\ o2 > o1 /\ o2 <= Len(s) /\ s[o2] = "/"
                /\ r2 > r1,
         owner |-> SubSeq(s, o1, o2 - 1),
         repo |-> SubSeq(s, r1, r2 - 1),
         rest |-> r2]

\* r'github\.com/([^/]+)/([^/]+)/?$' at position i
MatchExactAt(s, i) ==
    LET g == GroupsAt(s, i)
    IN  /\ g.ok
        /\ \/ g.rest = Len(s) + 1
           \/ g.rest = Len(s) /\ s[g.rest] = "/"

\* r'github\.com/([^/]+)/([^/]+)/.*' at position i
MatchPathAt(s, i) ==
    LET g == GroupsAt(s, i)
    IN  g.ok /\ g.rest <= Len(s) /\ s[g.rest] = "/"

\* re.search: the leftmost position where the pattern matches, 0 when none does
SearchExact(s) ==
    LET hits == {i \in 1..Len(s) : MatchExactAt(s, i)}
    IN  IF hits = {} THEN 0 ELSE CHOOSE i \in hits : \A j \in hits : i <= j

SearchPath(s) ==
    LET hits == {i \in 1..Len(s) : MatchPathAt(s, i)}
    IN  IF hits = {} THEN 0 ELSE CHOOSE i \in hits : \A j \in hits : i <= j

UrlOk(g) == [status |-> "ok", owner |-> g.owner, repo |-> g.repo]
UrlError == [status |-> "ValueError", owner |-> <<>>, repo |-> <<>>]

parse_github_url(url) ==
    LET u == rstrip(url, DotGitChars)
        a == SearchExact(u)
        b == SearchPath(u)
    IN  IF a # 0 THEN UrlOk(GroupsAt(u, a))
        ELSE IF b # 0 THEN UrlOk(GroupsAt(u, b))
        ELSE UrlError

(***************************************************************************)
(* Text helpers of the detectors.                                          *)
(***************************************************************************)
\* str.split(c): the pieces between the occurrences of c (one more than them)
RECURSIVE Split(_, _)
Split(s, c) ==
    LET e == RunEnd(s, 1, c)
    IN  IF e > Len(s) THEN <<s>>
        ELSE <<SubSeq(s, 1, e - 1)>> \o Split(SubSeq(s, e + 1, Len(s)), c)

Whitespace == {" ", "\t", "\r", "\n"}

RECURSIVE lstrip(_, _)
lstrip(s, chars) ==
    IF Len(s) > 0 /\ s[1] \in chars THEN lstrip(Tail(s), chars) ELSE s

\* str.strip()
strip(s) == lstrip(rstrip(s, Whitespace), Whitespace)

\* re.split(r'[...]', s)[0]: s up to the first character of the class
RECURSIVE BeforeFirst(_, _)
BeforeFirst(s, class) ==
    IF s = <<>> \/ s[1] \in class THEN <<>>
    ELSE <<s[1]>> \o BeforeFirst(Tail(s), class)

UpperCase == <<"A", "B", "C", "D", "E", "F", "G", "H", "I", "J", "K", "L", "M",
               "N", "O", "P", "Q", "R", "S", "T", "U", "V", "W", "X", "Y", "Z">>
LowerCase == <<"a", "b", "c", "d", "e", "f", "g", "h", "i", "j", "k", "l", "m",
               "n", "o", "p", "q", "r", "s", "t", "u", "v", "w", "x", "y", "z">>

LowerChar(c) ==
    IF \E i \in 1..Len(UpperCase) : UpperCase[i] = c
    THEN LowerCase[CHOOSE i \in 1..Len(UpperCase) : UpperCase[i] = c]
    ELSE c

\* str.lower()
lower(s) == [i \in 1..Len(s) |-> LowerChar(s[i])]

\* ', '.join(labels): the labels with the separator between them
RECURSIVE Join(_, _)
Join(labels, sep) ==
    IF Len(labels) <= 1 THEN labels
    ELSE <<Head(labels), sep>> \o Join(Tail(labels), sep)

\* a Python dict is a function; d[k] = v overrides
EmptyDict == <<>>
DictSet(d, k, v) == (k :> v) @@ d

(***************************************************************************)
(* The manifests.  requirements.txt is text.  package.json is what         *)
(* json.loads makes of it: kind "invalid" (json.loads raises), "nonobject" *)
(* (a list, a string, null: .get raises), or "object" with the values of   *)
(* its "dependencies" and "devDependencies": absent, something that is not *)
(* a mapping, or a mapping, given by its keys in document order.  pom.xml  *)
(* is a sequence of tags and text pieces.                                  *)
(***************************************************************************)
Absent == [is |-> "absent", keys |-> <<>>]
NotAMap == [is |-> "notamap", keys |-> <<>>]
Map(keys) == [is |-> "map", keys |-> keys]

\* package_data.get(key, {}) as the list of its keys (the default {} has none)
KeysOf(v) == v.keys
Range(seq) == {seq[i] : i \in 1..Len(seq)}

ArtifactOpen == "<artifactId>"
ArtifactClose == "</artifactId>"
IsTag(tok) == tok \in {ArtifactOpen, ArtifactClose, "<project>", "<dependency>", "<"}

\* the end (exclusive) of the run of text pieces ([^<]+) starting at i
RECURSIVE TextEnd(_, _)
TextEnd(toks, i) == IF i <= Len(toks) /\ ~IsTag(toks[i]) THEN TextEnd(toks, i + 1) ELSE i

\* re.findall(r'<artifactId>([^<]+)</artifactId>', pom) scanning from i
RECURSIVE FindArtifacts(_, _)
FindArtifacts(toks, i) ==
    IF i > Len(toks) THEN <<>>
    ELSE LET e == TextEnd(toks, i + 1)
         IN  IF toks[i] = ArtifactOpen /\ e > i + 1 /\ e <= Len(toks) /\ toks[e] = ArtifactClose
             THEN <<SubSeq(toks, i + 1, e - 1)>> \o FindArtifacts(toks, e + 1)
             ELSE FindArtifacts(toks, i + 1)

(***************************************************************************)
(* detect_framework                                                        *)
(***************************************************************************)
Str_django == <<"d", "j", "a", "n", "g", "o">>
Str_flask == <<"f", "l", "a", "s", "k">>
Str_fastapi == <<"f", "a", "s", "t", "a", "p", "i">>
Str_streamlit == <<"s", "t", "r", "e", "a", "m", "l", "i", "t">>

When(cond, label) == IF cond THEN <<label>> ELSE <<>>

\* the membership tests on "dependencies" alone
PackageFrameworks_RuntimeOnly(fc) ==
    IF "package.json" \notin DOMAIN fc THEN <<>>
    ELSE LET package_data == fc["package.json"]
         IN  IF package_data.kind # "object" THEN <<>>
             ELSE IF package_data.deps = NotAMap \/ package_data.dev = NotAMap THEN <<>>
             ELSE LET deps == Range(KeysOf(package_data.deps))
                  IN  When("react" \in deps, "React")
                      \o When("vue" \in deps, "Vue.js")
                      \o When("@angular/core" \in deps, "Angular")
                      \o When("express" \in deps, "Express.js")
                      \o When("next" \in deps, "Next.js")

\* lines 111-123: the labels of the package manifest, none when anything raises
PackageFrameworks(fc) ==
    IF "package.json" \notin DOMAIN fc THEN <<>>
    ELSE LET package_data == fc["package.json"]
         IN  IF package_data.kind # "object" THEN <<>>
             ELSE IF package_data.deps = NotAMap \/ package_data.dev = NotAMap THEN <<>>
             ELSE LET deps == Range(KeysOf(package_data.deps)) \cup Range(KeysOf(package_data.dev))
                  IN  When("react" \in deps, "React")
                      \o When("vue" \in deps, "Vue.js")
                      \o When("@angular/core" \in deps, "Angular")
                      \o When("express" \in deps, "Express.js")
                      \o When("next" \in deps, "Next.js")

\* lines 125-130
RequirementsFrameworks(fc) ==
    IF "requirements.txt" \notin DOMAIN fc THEN <<>>
    ELSE LET content == lower(fc["requirements.txt"])
         IN  When(IsSubstr(Str_django, content), "Django")
             \o When(IsSubstr(Str_flask, content), "Flask")
             \o When(IsSubstr(Str_fastapi, content), "FastAPI")
             \o When(IsSubstr(Str_streamlit, content), "Streamlit")

\* lines 132-135
FileFrameworks(files) ==
    When("manage.py" \in files, "Django")
    \o When("pom.xml" \in files \/ "build.gradle" \in files, "Spring Boot")
    \o When("composer.json" \in files, "Laravel/PHP")
    \o When("Gemfile" \in files, "Ruby on Rails")

LabelSep == ", "

\* each label once
RECURSIVE Dedup(_)
Dedup(labels) ==
    IF labels = <<>> THEN <<>>
    ELSE LET rest == Dedup(SubSeq(labels, 1, Len(labels) - 1))
             last == labels[Len(labels)]
         IN  IF last \in Range(rest) THEN rest ELSE Append(rest, last)

detect_framework_Dedup(files, fc) ==
    LET frameworks == Dedup(PackageFrameworks(fc) \o RequirementsFrameworks(fc)
                            \o FileFrameworks(files))
    IN  IF frameworks # <<>> THEN Join(frameworks, LabelSep) ELSE <<"Unknown">>

detect_framework(files, fc) ==
    LET frameworks == PackageFrameworks(fc) \o RequirementsFrameworks(fc) \o FileFrameworks(files)
    IN  IF frameworks # <<>> THEN Join(frameworks, LabelSep) ELSE <<"Unknown">>

(***************************************************************************)
(* extract_dependencies                                                    *)
(***************************************************************************)
\* the character class of re.split(r'[>=<!=]', line)
SpecifierChars == {">", "=", "<", "!"}

\* lines 145-149: the package a line contributes, <<>> when it contributes none
PackageOf(rawline) ==
    LET line == strip(rawline)
    IN  IF line # <<>> /\ line[1] # "#"
        THEN strip(BeforeFirst(line, SpecifierChars))
        ELSE <<>>

NonEmpty(s) == s # <<>>

\* lines 143-149
RequirementPackages(content) ==
    LET lines == Split(content, "\n")
    IN  SelectSeq([i \in 1..Len(lines) |-> PackageOf(lines[i])], NonEmpty)

\* lines 142-150
PythonDeps(fc, d) ==
    IF "requirements.txt" \in DOMAIN fc
    THEN DictSet(d, "Python", RequirementPackages(fc["requirements.txt"]))
    ELSE d

\* lines 152-162
NodeDeps(fc, d) ==
    IF "package.json" \notin DOMAIN fc THEN d
    ELSE LET package_data == fc["package.json"]
         IN  IF package_data.kind # "object" THEN d
             ELSE IF package_data.deps = NotAMap \/ package_data.dev = NotAMap THEN d
             ELSE LET deps == KeysOf(package_data.deps)
                      dev_deps == KeysOf(package_data.dev)
                      d1 == IF deps # <<>> THEN DictSet(d, "Node.js", deps) ELSE d
                  IN  IF dev_deps # <<>> THEN DictSet(d1, "Node.js Dev", dev_deps) ELSE d1

\* lines 164-167
MavenDeps(fc, d) ==
    IF "pom.xml" \notin DOMAIN fc THEN d
    ELSE LET artifacts == FindArtifacts(fc["pom.xml"], 1)
         IN  IF artifacts # <<>> THEN DictSet(d, "Java (Maven)", artifacts) ELSE d

extract_dependencies(fc) == MavenDeps(fc, NodeDeps(fc, PythonDeps(fc, EmptyDict)))

(***************************************************************************)
(* generate_setup_instructions.  An instruction is the sequence of the     *)
(* pieces of its text: a prose line is one piece, a command block starts   *)
(* and ends with the fence piece.                                          *)
(***************************************************************************)
\* the fence piece stands for the three backquotes that open and close a block
Fence == "<fence>"

\* 'X' in analysis.framework.  The framework text is the sequence of its labels and
\* separators; no label of detect_framework is part of another label or of the
\* separator, so the substring test is a test on the pieces.
FrameworkHas(fw, label) == \E i \in 1..Len(fw) : fw[i] = label

CloneBlock(a) ==
    << <<"Clone the repository:">>,
       <<Fence, "bash\ngit clone <repository-url>\ncd ", a.name, "\n", Fence>> >>

\* the install prose without its command when there is nothing to install from
PythonBlock_LoneProse(a) ==
    IF "Python" \notin DOMAIN a.languages THEN <<>>
    ELSE << <<"Set up Python environment:">>,
            <<Fence, "bash\npython -m venv venv\nsource venv/bin/activate  # On Windows: venv\\Scripts\\activate\n", Fence>> >>
         \o (IF a.has_requirements
             THEN << <<"Install Python dependencies:">>,
                     <<Fence, "bash\npip install -r requirements.txt\n", Fence>> >>
             ELSE IF a.has_setup_py
             THEN << <<"Install the package:">>,
                     <<Fence, "bash\npip install -e .\n", Fence>> >>
             ELSE << <<"Install Python dependencies:">> >>)

PythonBlock(a) ==
    IF "Python" \notin DOMAIN a.languages THEN <<>>
    ELSE << <<"Set up Python environment:">>,
            <<Fence, "bash\npython -m venv venv\nsource venv/bin/activate  # On Windows: venv\\Scripts\\activate\n", Fence>> >>
         \o (IF a.has_requirements
             THEN << <<"Install Python dependencies:">>,
                     <<Fence, "bash\npip install -r requirements.txt\n", Fence>> >>
             ELSE IF a.has_setup_py
             THEN << <<"Install the package:">>,
                     <<Fence, "bash\npip install -e .\n", Fence>> >>
             ELSE <<>>)

NodeBlock(a) ==
    IF "JavaScript" \in DOMAIN a.languages \/ a.has_package_json
    THEN << <<"Install Node.js dependencies:">>,
            <<Fence, "bash\nnpm install\n# or\nyarn install\n", Fence>> >>
    ELSE <<>>

DockerBlock(a) ==
    IF a.has_docker
    THEN << <<"Docker setup:">>,
            <<Fence, "bash\ndocker build -t app .\ndocker run -p 3000:3000 app\n", Fence>> >>
    ELSE <<>>

\* the tests for Flask and Django in the other order
RunBlock_FlaskFirst(a) ==
    IF FrameworkHas(a.framework, "Flask")
    THEN << <<"Run Flask application:">>,
            <<Fence, "bash\nflask run\n# or\npython app.py\n", Fence>> >>
    ELSE IF FrameworkHas(a.framework, "Django")
    THEN << <<"Run Django migrations:">>,
            <<Fence, "bash\npython manage.py migrate\npython manage.py runserver\n", Fence>> >>
    ELSE IF FrameworkHas(a.framework, "Streamlit")
    THEN << <<"Run Streamlit application:">>,
            <<Fence, "bash\nstreamlit run app.py\n", Fence>> >>
    ELSE IF FrameworkHas(a.framework, "React") \/ FrameworkHas(a.framework, "Next.js")
    THEN << <<"Start development server:">>,
            <<Fence, "bash\nnpm start\n# or\nnpm run dev\n", Fence>> >>
    ELSE <<>>

RunBlock(a) ==
    IF FrameworkHas(a.framework, "Django")
    THEN << <<"Run Django migrations:">>,
            <<Fence, "bash\npython manage.py migrate\npython manage.py runserver\n", Fence>> >>
    ELSE IF FrameworkHas(a.framework, "Flask")
    THEN << <<"Run Flask application:">>,
            <<Fence, "bash\nflask run\n# or\npython app.py\n", Fence>> >>
    ELSE IF FrameworkHas(a.framework, "Streamlit")
    THEN << <<"Run Streamlit application:">>,
            <<Fence, "bash\nstreamlit run app.py\n", Fence>> >>
    ELSE IF FrameworkHas(a.framework, "React") \/ FrameworkHas(a.framework, "Next.js")
    THEN << <<"Start development server:">>,
            <<Fence, "bash\nnpm start\n# or\nnpm run dev\n", Fence>> >>
    ELSE <<>>

\* the Docker block ahead of the Node block
generate_setup_instructions_DockerFirst(a) ==
    CloneBlock(a) \o PythonBlock(a) \o DockerBlock(a) \o NodeBlock(a) \o RunBlock(a)

generate_setup_instructions(a) ==
    CloneBlock(a) \o PythonBlock(a) \o NodeBlock(a) \o DockerBlock(a) \o RunBlock(a)

(***************************************************************************)
(* The remote repository and the HTTP exchange.  requests.get either       *)
(* brings a response with a status code or raises (no connection, a        *)
(* timeout); no method of the analyzer but test_token catches that.        *)
(***************************************************************************)
ConnectionError == "ConnectionError"
FailStatuses == {"404", "403", "500"}
Outcomes == {"200"} \cup FailStatuses \cup {ConnectionError}

\* the calls that only test status_code != 200: 404 stands for every such status
SoftOutcomes == {"200", "404", ConnectionError}

\* a 200 for a file whose bytes do not decode (get_file_content returns None)
Undecodable == "200-undecodable"

\* a request with the status of its response (ConnectionError when none came)
Request(kind, path, status) == [kind |-> kind, path |-> path, status |-> status]

\* get_repo_info's exception for a response that is not a 200
RepoInfoError(status) ==
    IF status = "404" THEN "Repository not found"
    ELSE IF status = "403" THEN "Access denied"
    ELSE "Failed to fetch repo info"

\* an item of a contents listing
Item(name, type, size) == [name |-> name, type |-> type, size |-> size]
FileNamesOf(contents) == {contents[i].name : i \in {j \in 1..Len(contents) : contents[j].type = "file"}}
DirNamesOf(contents) == {contents[i].name : i \in {j \in 1..Len(contents) : contents[j].type = "dir"}}

\* 'test' in f.lower(), on the file names of the repositories modelled
NameHasTest(f) == f \in {"test_app.py", "Tests.md"}

\* lines 237-243
FlagsOf(contents) ==
    LET names == FileNamesOf(contents)
    IN  [has_docker |-> names \cap {"Dockerfile", "docker-compose.yml", "docker-compose.yaml"} # {},
         has_requirements |-> "requirements.txt" \in names,
         has_package_json |-> "package.json" \in names,
         has_setup_py |-> "setup.py" \in names,
         has_makefile |-> names \cap {"Makefile", "makefile"} # {},
         has_tests |-> \/ \E f \in names : NameHasTest(f)
                       \/ DirNamesOf(contents) \cap {"tests", "test"} # {}]

important_files == <<"package.json", "requirements.txt", "pom.xml", "setup.py">>

(***************************************************************************)
(* build_file_structure.  A frame is one call: its path, its               *)
(* current_depth, the items still to visit ("enter" before the listing is  *)
(* fetched) and the structure built so far.                                *)
(***************************************************************************)
IgnoredDirs == {"node_modules", "__pycache__", "venv"}

\* name.startswith('.'), on the directory names of the repositories modelled
StartsWithDot(name) == name \in {".git", ".github"}

\* the test of line 220 without its ignore list
Descend_NoIgnoreList(item) == item.type = "dir" /\ ~StartsWithDot(item.name)

\* line 220
Descend(item) ==
    item.type = "dir" /\ ~StartsWithDot(item.name) /\ item.name \notin IgnoredDirs

Leaf(item) == [type |-> "file", size |-> item.size]

Frame(path, depth) ==
    [path |-> path, current_depth |-> depth, entered |-> FALSE,
     contents |-> <<>>, structure |-> EmptyDict]

\* the cutoff one level late
AtCutoff_OffByOne(current_depth) == current_depth > max_depth

\* line 212
AtCutoff(current_depth) == current_depth >= max_depth

Top == stack[Len(stack)]
SetTop(f) == [stack EXCEPT ![Len(stack)] = f]

\* the innermost call returns result: it is stored under the name of the item the
\* caller was visiting, or, from the outermost call, becomes file_structure
Return(result) ==
    IF Len(stack) = 1
    THEN /\ stack' = <<>>
         /\ file_structure' = result
         /\ pc' = "assemble"
    ELSE LET caller == stack[Len(stack) - 1]
             item == Head(caller.contents)
         IN  /\ stack' = [SubSeq(stack, 1, Len(stack) - 1) EXCEPT ![Len(stack) - 1] =
                            [caller EXCEPT !.contents = Tail(caller.contents),
                                           !.structure = DictSet(caller.structure, item.name, result)]]
             /\ UNCHANGED <<file_structure, pc>>

(***************************************************************************)
(* analyze_repository, one action per call it makes.                       *)
(***************************************************************************)
Fail(e) == pc' = "failed" /\ err' = e

\* line 229
ParseUrl ==
    /\ pc = "parse"
    /\ parsed' = parse_github_url(github_url)
    /\ IF parsed'.status = "ok"
       THEN pc' = "repo_info" /\ err' = NoError
       ELSE Fail("Invalid GitHub URL format")
    /\ UNCHANGED <<url_case, github_url, netVars, fetchVars, depVars, walkVars, analysis, uiVars>>

\* get_repo_info raising on a 404 alone
GetRepoInfo_OnlyNotFound ==
    /\ pc = "repo_info"
    /\ \E outcome \in Outcomes :
        /\ requests' = Append(requests, Request("repo_info", <<>>, outcome))
        /\ IF outcome \in {"404", ConnectionError}
           THEN /\ Fail(IF outcome = ConnectionError THEN ConnectionError
                        ELSE RepoInfoError(outcome))
                /\ UNCHANGED repo_info
           ELSE /\ repo_info' = world.info
                /\ pc' = "languages"
                /\ err' = NoError
    /\ UNCHANGED <<urlVars, world, languages, root_contents, file_names, flags, file_idx,
                   depVars, walkVars, analysis, uiVars>>

\* line 230, get_repo_info
GetRepoInfo ==
    /\ pc = "repo_info"
    /\ \E outcome \in Outcomes :
        /\ requests' = Append(requests, Request("repo_info", <<>>, outcome))
        /\ IF outcome = "200"
           THEN /\ repo_info' = world.info
                /\ pc' = "languages"
                /\ err' = NoError
           ELSE /\ Fail(IF outcome = ConnectionError THEN ConnectionError
                        ELSE RepoInfoError(outcome))
                /\ UNCHANGED repo_info
    /\ UNCHANGED <<urlVars, world, languages, root_contents, file_names, flags, file_idx,
                   depVars, walkVars, analysis, uiVars>>

\* line 231, get_languages
GetLanguages ==
    /\ pc = "languages"
    /\ \E outcome \in SoftOutcomes :
        /\ requests' = Append(requests, Request("languages", <<>>, outcome))
        /\ IF outcome = ConnectionError
           THEN Fail(ConnectionError) /\ UNCHANGED languages
           ELSE /\ languages' = IF outcome = "200" THEN world.languages ELSE EmptyDict
                /\ pc' = "root"
                /\ err' = NoError
    /\ UNCHANGED <<urlVars, world, repo_info, root_contents, file_names, flags, file_idx,
                   depVars, walkVars, analysis, uiVars>>

\* lines 234-246, get_repo_contents of the root
GetRootContents ==
    /\ pc = "root"
    /\ \E outcome \in SoftOutcomes :
        /\ requests' = Append(requests, Request("contents", <<>>, outcome))
        /\ IF outcome = ConnectionError
           THEN Fail(ConnectionError)
                /\ UNCHANGED <<root_contents, file_names, flags, file_idx, file_contents>>
           ELSE /\ root_contents' = IF outcome = "200" THEN world.tree[<<>>] ELSE <<>>
                /\ file_names' = FileNamesOf(root_contents')
                /\ flags' = FlagsOf(root_contents')
                /\ file_idx' = 1
                /\ file_contents' = EmptyDict
                /\ pc' = "files"
                /\ err' = NoError
    /\ UNCHANGED <<urlVars, world, repo_info, languages, manifest_case, framework,
                   dependencies, walkVars, analysis, uiVars>>

AfterFile == IF file_idx = Len(important_files) THEN "detect" ELSE "files"

\* lines 248-252, get_file_content: the file's content comes back on a 200 whose
\* bytes decode; `if content:` also drops the content of an empty file
EmptyFile == "200-empty"
FileResponses == SoftOutcomes \cup {Undecodable, EmptyFile}

FetchImportantFile ==
    /\ pc = "files"
    /\ important_files[file_idx] \in file_names
    /\ \E outcome \in FileResponses :
        LET file_name == important_files[file_idx]
        IN  /\ requests' = Append(requests, Request("file", <<file_name>>, outcome))
            /\ IF outcome = ConnectionError
               THEN Fail(ConnectionError) /\ UNCHANGED <<file_idx, file_contents>>
               ELSE /\ file_contents' = IF outcome = "200"
                                        THEN DictSet(file_contents, file_name, world.blobs[file_name])
                                        ELSE file_contents
                    /\ file_idx' = file_idx + 1
                    /\ pc' = AfterFile
                    /\ err' = NoError
    /\ UNCHANGED <<urlVars, world, repo_info, languages, root_contents, file_names, flags,
                   manifest_case, framework, dependencies, walkVars, analysis, uiVars>>

\* line 249, the file is not in the root listing: no request
SkipImportantFile ==
    /\ pc = "files"
    /\ important_files[file_idx] \notin file_names
    /\ file_idx' = file_idx + 1
    /\ pc' = AfterFile
    /\ UNCHANGED <<err, urlVars, netVars, repo_info, languages, root_contents, file_names,
                   flags, depVars, walkVars, analysis, uiVars>>

\* line 254
DetectFramework ==
    /\ pc = "detect"
    /\ framework' = detect_framework(file_names, file_contents)
    /\ pc' = "extract"
    /\ UNCHANGED <<err, urlVars, netVars, fetchVars, manifest_case, file_contents,
                   dependencies, walkVars, analysis, uiVars>>

\* lines 255-256: extract_dependencies, then the outermost call of build_file_structure
ExtractDependencies ==
    /\ pc = "extract"
    /\ dependencies' = extract_dependencies(file_contents)
    /\ pc' = "walk"
    /\ stack' = <<Frame(<<>>, 0)>>
    /\ UNCHANGED <<err, urlVars, netVars, fetchVars, manifest_case, file_contents,
                   framework, max_depth, file_structure, analysis, uiVars>>

\* lines 212-213
WalkCutoff ==
    /\ pc = "walk" /\ stack # <<>>
    /\ ~Top.entered
    /\ AtCutoff(Top.current_depth)
    /\ Return(EmptyDict)
    /\ UNCHANGED <<err, urlVars, netVars, fetchVars, depVars, max_depth, analysis, uiVars>>

\* lines 215-216
WalkList ==
    /\ pc = "walk" /\ stack # <<>>
    /\ ~Top.entered
    /\ ~AtCutoff(Top.current_depth)
    /\ \E outcome \in SoftOutcomes :
        /\ requests' = Append(requests, Request("contents", Top.path, outcome))
        /\ IF outcome = ConnectionError
           THEN Fail(ConnectionError) /\ UNCHANGED stack
           ELSE /\ stack' = SetTop([Top EXCEPT
                                !.entered = TRUE,
                                !.contents = IF outcome = "200" THEN world.tree[Top.path] ELSE <<>>])
                /\ UNCHANGED <<pc, err>>
    /\ UNCHANGED <<urlVars, world, fetchVars, depVars, max_depth, file_structure, analysis, uiVars>>

\* lines 220-221
WalkDir ==
    /\ pc = "walk" /\ stack # <<>>
    /\ Top.entered /\ Top.contents # <<>>
    /\ Descend(Head(Top.contents))
    /\ stack' = Append(stack, Frame(Append(Top.path, Head(Top.contents).name),
                                    Top.current_depth + 1))
    /\ UNCHANGED <<pc, err, urlVars, netVars, fetchVars, depVars, max_depth, file_structure, analysis,
                   uiVars>>

\* lines 222-223
WalkFile ==
    /\ pc = "walk" /\ stack # <<>>
    /\ Top.entered /\ Top.contents # <<>>
    /\ ~Descend(Head(Top.contents))
    /\ Head(Top.contents).type = "file"
    /\ stack' = SetTop([Top EXCEPT
                    !.contents = Tail(Top.contents),
                    !.structure = DictSet(Top.structure, Head(Top.contents).name,
                                          Leaf(Head(Top.contents)))])
    /\ UNCHANGED <<pc, err, urlVars, netVars, fetchVars, depVars, max_depth, file_structure, analysis,
                   uiVars>>

\* line 218: an item that is neither a directory to descend nor a file
WalkSkip ==
    /\ pc = "walk" /\ stack # <<>>
    /\ Top.entered /\ Top.contents # <<>>
    /\ ~Descend(Head(Top.contents))
    /\ Head(Top.contents).type # "file"
    /\ stack' = SetTop([Top EXCEPT !.contents = Tail(Top.contents)])
    /\ UNCHANGED <<pc, err, urlVars, netVars, fetchVars, depVars, max_depth, file_structure, analysis,
                   uiVars>>

\* line 225
WalkReturn ==
    /\ pc = "walk" /\ stack # <<>>
    /\ Top.entered /\ Top.contents = <<>>
    /\ Return(Top.structure)
    /\ UNCHANGED <<err, urlVars, netVars, fetchVars, depVars, max_depth, analysis, uiVars>>

\* lines 258-275: the record before its instructions
CoreAnalysis ==
    [name |-> repo_info.name,
     description |-> repo_info.description,
     language |-> repo_info.language,
     languages |-> languages,
     framework |-> framework,
     has_docker |-> flags.has_docker,
     has_requirements |-> flags.has_requirements,
     has_package_json |-> flags.has_package_json,
     has_setup_py |-> flags.has_setup_py,
     has_makefile |-> flags.has_makefile,
     has_tests |-> flags.has_tests,
     license |-> repo_info.license,
     topics |-> repo_info.topics,
     setup_instructions |-> <<>>,
     dependencies |-> dependencies,
     file_structure |-> file_structure]

\* lines 258-279
Assemble ==
    /\ pc = "assemble"
    /\ analysis' = [CoreAnalysis EXCEPT
                        !.setup_instructions = generate_setup_instructions(CoreAnalysis)]
    /\ pc' = "done"
    /\ UNCHANGED <<err, urlVars, netVars, fetchVars, depVars, walkVars, uiVars>>

(***************************************************************************)
(* The page (src/app.py).  Streamlit runs the script of the page again at  *)
(* every interaction; st.session_state is what lasts from one run to the   *)
(* next.  A click on 'Analyze Repository' is a run with the texts of the   *)
(* two inputs; inside its try block stands the call of analyze_repository, *)
(* whose steps are the actions above.                                      *)
(***************************************************************************)
NoResult == [name |-> None]
NoDownload == [file_name |-> None]

\* initialize_session_state, lines 102-106, before any interaction
IdleUi ==
    /\ ui = "idle" /\ clicks = 0
    /\ github_token = "" /\ repo_url = <<>>
    /\ analysis_result = NoResult
    /\ message = <<>> /\ download = NoDownload

\* the fields of a RepoAnalysis that may hold None
OptionalFields == {"license"}

\* json.dumps of the value of a field: None becomes null, a string, a boolean, a
\* list or a dict keeps its shape
ToJson(field, v) == IF field \in OptionalFields /\ v = None THEN "null" ELSE v

\* lines 350-366: the fields the export names, in the order it names them
ExportedFields ==
    <<"name", "description", "language", "languages", "framework", "has_docker",
      "has_requirements", "has_package_json", "has_setup_py", "has_makefile", "has_tests",
      "license", "topics", "dependencies", "setup_instructions">>

\* lines 350-366
analysis_dict(a) == [i \in 1..Len(ExportedFields) |-> <<ExportedFields[i], a[ExportedFields[i]]>>]

\* line 369, json.dumps(analysis_dict): the members of the document, in order
dumps(d) == [i \in 1..Len(d) |-> [key |-> d[i][1], value |-> ToJson(d[i][1], d[i][2])]]

(***************************************************************************)
(* The repositories under test.  A tree is a chain of directories "d"      *)
(* nested `nest` deep; the root lists rootItems, every directory of the    *)
(* chain lists innerItems, and each lists the next directory of the chain  *)
(* last.  Any other directory of a listing holds one file.                 *)
(***************************************************************************)
ChainPath(k) == [i \in 1..k |-> "d"]

LevelItems(k, rootItems, innerItems) == IF k = 0 THEN rootItems ELSE innerItems

Listing(k, nest, rootItems, innerItems) ==
    LevelItems(k, rootItems, innerItems)
    \o (IF k < nest THEN <<Item("d", "dir", 0)>> ELSE <<>>)

SideListing == <<Item("x.js", "file", 1)>>

TreeOf(nest, rootItems, innerItems) ==
    LET chain == {ChainPath(k) : k \in 0..nest}
        side == UNION {{Append(ChainPath(k), n) :
                            n \in DirNamesOf(LevelItems(k, rootItems, innerItems))} :
                       k \in 0..nest}
    IN  [p \in chain \cup side |->
            IF p \in chain THEN Listing(Len(p), nest, rootItems, innerItems)
            ELSE SideListing]

Info(name) ==
    [name |-> name, description |-> "No description available", language |-> "Python",
     license |-> None, topics |-> <<>>]

\* requirements.txt of the repositories of the analysis
Text_streamlit == Str_streamlit \o <<"\n">>
Text_django == <<"D", "j", "a", "n", "g", "o", "=", "=", "2", "\n">>

Pkg(deps, dev) == [kind |-> "object", deps |-> deps, dev |-> dev]
Pom_app == <<"<project>", ArtifactOpen, "app", ArtifactClose>>

Blobs ==
    [f \in Range(important_files) |->
        IF f = "requirements.txt" THEN Text_django
        ELSE IF f = "package.json" THEN Pkg(Map(<<"react">>), Absent)
        ELSE IF f = "pom.xml" THEN Pom_app
        ELSE <<"s", "e", "t", "u", "p", "(", ")">>]

World(tree) ==
    [info |-> Info("repo"), languages |-> ("Python" :> 900) @@ ("JavaScript" :> 100),
     tree |-> tree, blobs |-> Blobs]

NoFiles == {}
NoWorld == World(TreeOf(0, <<>>, <<>>))

(***************************************************************************)
(* The analysis of a repository, from the URL to the RepoAnalysis.         *)
(***************************************************************************)
DefaultMaxDepth == 3

Url(owner, repo, host) ==
    [scheme |-> <<"h", "t", "t", "p", "s", ":", "/", "/">>, host |-> host,
     owner |-> owner, repo |-> repo, tail |-> <<>>]

Gitlab == <<"g", "i", "t", "l", "a", "b", ".", "c", "o", "m", "/">>

RenderUrl(c) == Flatten(<<c.scheme, c.host, c.owner, <<"/">>, c.repo, c.tail>>)

AnalysisUrls == {Url(<<"a">>, <<"a">>, GithubCom), Url(<<"a">>, <<"a">>, Gitlab)}

PythonRoot ==
    <<Item("requirements.txt", "file", 20), Item("setup.py", "file", 30),
      Item("manage.py", "file", 40), Item("tests", "dir", 0), Item(".git", "dir", 0)>>
NodeRoot ==
    <<Item("node_modules", "dir", 0), Item("package.json", "file", 60),
      Item("Dockerfile", "file", 70), Item("pom.xml", "file", 80)>>
Inner == <<Item("a.txt", "file", 500)>>

AnalysisWorlds ==
    {World(TreeOf(0, <<>>, <<>>)),
     World(TreeOf(1, PythonRoot, Inner)),
     World(TreeOf(4, NodeRoot, Inner))}

Init ==
    /\ pc = "parse"
    /\ err = NoError
    /\ url_case \in AnalysisUrls
    /\ github_url = RenderUrl(url_case)
    /\ parsed = NotCalled
    /\ world \in AnalysisWorlds
    /\ requests = <<>>
    /\ repo_info = None
    /\ languages = None
    /\ root_contents = None
    /\ file_names = NoFiles
    /\ flags = None
    /\ file_idx = 1
    /\ manifest_case = None
    /\ file_contents = EmptyDict
    /\ framework = None
    /\ dependencies = None
    /\ max_depth = DefaultMaxDepth
    /\ stack = <<>>
    /\ file_structure = None
    /\ analysis = None
    /\ IdleUi

Next ==
    \/ ParseUrl
    \/ GetRepoInfo
    \/ GetLanguages
    \/ GetRootContents
    \/ FetchImportantFile
    \/ SkipImportantFile
    \/ DetectFramework
    \/ ExtractDependencies
    \/ WalkCutoff
    \/ WalkList
    \/ WalkDir
    \/ WalkFile
    \/ WalkSkip
    \/ WalkReturn
    \/ Assemble

Spec == Init /\ [][Next]_vars

(***************************************************************************)
(* parse_github_url on its own, over a set of URLs.                        *)
(***************************************************************************)
MaxNameLen == 2

NameChars == {"a", "t"}
Names == SeqsOf(NameChars, 1, MaxNameLen)

Schemes == {<<>>, <<"h", "t", "t", "p", "s", ":", "/", "/">>}
Hosts == {GithubCom, Gitlab}
UrlTails == {<<>>, <<"/">>, <<".", "g", "i", "t">>, <<"/", "a">>, <<"/", "a", "/", "t">>}

UrlCases == [scheme : Schemes, host : Hosts, owner : Names, repo : Names, tail : UrlTails]

\* the part of the state that an operation analysed on its own does not use
IdleNet == world = NoWorld /\ requests = <<>>
IdleFetch ==
    /\ repo_info = None /\ languages = None /\ root_contents = None
    /\ file_names = NoFiles /\ flags = None /\ file_idx = 1
IdleDeps ==
    /\ manifest_case = None /\ file_contents = EmptyDict
    /\ framework = None /\ dependencies = None
IdleWalk == max_depth = DefaultMaxDepth /\ stack = <<>> /\ file_structure = None
IdleUrl == url_case = None /\ github_url = <<>> /\ parsed = NotCalled

InitUrl ==
    /\ pc = "parse"
    /\ err = NoError
    /\ url_case \in UrlCases
    /\ github_url = RenderUrl(url_case)
    /\ parsed = NotCalled
    /\ IdleNet /\ IdleFetch /\ IdleDeps /\ IdleWalk
    /\ analysis = None
    /\ IdleUi

NextUrl == ParseUrl

SpecUrl == InitUrl /\ [][NextUrl]_vars

\* C1: every URL github.com/<owner>/<repo>, with or without a trailing slash, path
\* or .git, parses to exactly (owner, repo) as written.
C1_ParsesOwnerRepo ==
    (parsed # NotCalled /\ url_case.host = GithubCom)
        => parsed = [status |-> "ok", owner |-> url_case.owner, repo |-> url_case.repo]

GithubSegment == <<"g", "i", "t", "h", "u", "b", ".", "c", "o", "m">>

\* C11: for every URL in which github.com does not occur, parse_github_url raises
\* its invalid-URL error and returns no (owner, repo) pair; the analysis ends there.
C11_NoGithubSegmentRaises ==
    (parsed # NotCalled /\ ~IsSubstr(GithubSegment, github_url))
        => /\ parsed = UrlError
           /\ pc = "failed"
           /\ err = "Invalid GitHub URL format"

\* https://gitlab.com/a/t/a was parsed and refused
C11_Witness ==
    /\ parsed = UrlError
    /\ pc = "failed"
    /\ url_case = [scheme |-> <<"h", "t", "t", "p", "s", ":", "/", "/">>, host |-> Gitlab,
                   owner |-> <<"a">>, repo |-> <<"t">>, tail |-> <<"/", "a">>]

(***************************************************************************)
(* Claims on the analysis as a whole.                                      *)
(***************************************************************************)
RepoInfoErrors == {"Repository not found", "Access denied", "Failed to fetch repo info"}

\* C2: once get_repo_info has met a status other than 200, the analysis has failed,
\* no RepoAnalysis exists and the repo-info request is the only request issued.
C2_RepoInfoFailureAborts ==
    (requests # <<>> /\ requests[1].status \in FailStatuses)
        => /\ pc = "failed"
           /\ err = RepoInfoError(requests[1].status)
           /\ analysis = None
    /\ IdleUi
           /\ Len(requests) = 1
           /\ requests[1].kind = "repo_info"

C2_Witness ==
    /\ pc = "failed" /\ err = "Access denied"
    /\ requests = <<Request("repo_info", <<>>, "403")>>

\* C3: once the repo-info call has succeeded the analysis never fails, whatever
\* happens to the languages, contents and file requests.
RepoInfoSucceeded == requests # <<>> /\ requests[1] = Request("repo_info", <<>>, "200")

C3_NonCriticalNeverAborts == RepoInfoSucceeded => pc # "failed"

\* the places in the request log of the listings of the root (path "") and of the
\* important-file contents
RootListings ==
    {i \in 1..Len(requests) : requests[i].kind = "contents" /\ requests[i].path = <<>>}
FileRequests == {i \in 1..Len(requests) : requests[i].kind = "file"}

\* C13: a run of analyze_repository that returned has requested the listing of the
\* root exactly once, and ahead of every request for the content of an important file.
C13_RootListedOnce ==
    pc = "done" =>
        /\ Cardinality(RootListings) = 1
        /\ \A i \in RootListings : \A j \in FileRequests : i < j

(***************************************************************************)
(* build_file_structure on its own, over trees and values of max_depth.    *)
(***************************************************************************)
MaxNest == 5
MaxDepthArg == 4

Templates ==
    {<<>>,
     <<Item("node_modules", "dir", 0), Item("a.txt", "file", 500)>>,
     <<Item(".git", "dir", 0), Item("b.py", "file", 0), Item("venv", "dir", 0),
       Item("__pycache__", "dir", 0)>>,
     <<Item("link", "symlink", 9), Item("lib", "dir", 0), Item("a.txt", "file", 500)>>}

WalkWorlds == {World(TreeOf(nest, t, t)) : nest \in 0..MaxNest, t \in Templates}

InitWalk ==
    /\ pc = "walk"
    /\ err = NoError
    /\ IdleUrl
    /\ world \in WalkWorlds
    /\ requests = <<>>
    /\ IdleFetch /\ IdleDeps
    /\ max_depth \in 0..MaxDepthArg
    /\ stack = <<Frame(<<>>, 0)>>
    /\ file_structure = None
    /\ analysis = None
    /\ IdleUi

NextWalk ==
    \/ WalkCutoff
    \/ WalkList
    \/ WalkDir
    \/ WalkFile
    \/ WalkSkip
    \/ WalkReturn

\* the calls are sequential code: a call that can take its next step takes it
SpecWalk == InitWalk /\ [][NextWalk]_vars /\ WF_vars(NextWalk)

IsLeaf(node) == DOMAIN node = {"type", "size"}

\* the number of names on the longest path of keys of a structure
RECURSIVE KeyDepth(_)
KeyDepth(node) ==
    IF IsLeaf(node) \/ DOMAIN node = {} THEN 0
    ELSE LET below == {KeyDepth(node[n]) : n \in DOMAIN node}
         IN  1 + CHOOSE m \in below : \A k \in below : k <= m

\* the directories of a structure whose path of keys has k names
RECURSIVE DirsAt(_, _)
DirsAt(node, k) ==
    IF k = 0 THEN {node}
    ELSE UNION {DirsAt(node[n], k - 1) : n \in {m \in DOMAIN node : ~IsLeaf(node[m])}}

WalkDone == pc = "assemble"

C4_DepthBound ==
    /\ \A i \in 1..Len(requests) :
          requests[i].kind = "contents" => Len(requests[i].path) < max_depth
    /\ Len(stack) <= max_depth + 1
    /\ WalkDone =>
          /\ KeyDepth(file_structure) <= max_depth
          /\ \A d \in DirsAt(file_structure, max_depth) : d = EmptyDict

\* C4: no listing is requested for a directory at depth max_depth or more, every
\* directory stored at depth max_depth is an empty subtree, nothing is stored deeper,
\* and the walk comes to its end.
C4_NeverPastMaxDepth == []C4_DepthBound /\ <>(pc # "walk")

\* a chain nested 5 deep walked with max_depth 3: the directory at depth 3 is empty
C4_Witness ==
    /\ WalkDone /\ max_depth = 3
    /\ ChainPath(5) \in DOMAIN world.tree
    /\ "d" \in DOMAIN file_structure
    /\ "d" \in DOMAIN file_structure["d"]
    /\ "d" \in DOMAIN file_structure["d"]["d"]
    /\ file_structure["d"]["d"]["d"] = EmptyDict

\* the structure stored under a path of keys
RECURSIVE NodeAt(_, _)
NodeAt(node, path) == IF path = <<>> THEN node ELSE NodeAt(node[Head(path)], Tail(path))

Ignored(item) == item.type = "dir" /\ (item.name \in IgnoredDirs \/ StartsWithDot(item.name))

\* the listings that came back
Listed == {requests[i].path : i \in {j \in 1..Len(requests) :
                requests[j].kind = "contents" /\ requests[j].status = "200"}}

\* C5: for every listing that came back, each of its files is stored under its name
\* as {type: file, size: its size}, no ignored directory has a key, and no listing
\* is ever requested for an ignored directory.
C5_LeavesAndIgnoredDirs ==
    /\ \A i \in 1..Len(requests) : \A k \in 1..Len(requests[i].path) :
          requests[i].path[k] \notin IgnoredDirs /\ ~StartsWithDot(requests[i].path[k])
    /\ WalkDone =>
          \A p \in Listed :
             LET node == NodeAt(file_structure, p)
                 items == Range(world.tree[p])
             IN  /\ \A it \in items :
                       /\ it.type = "file" =>
                             /\ it.name \in DOMAIN node
                             /\ node[it.name] = [type |-> "file", size |-> it.size]
                       /\ Ignored(it) => it.name \notin DOMAIN node
                 /\ DOMAIN node \subseteq {it.name : it \in items}

\* a root of node_modules and a.txt (500 bytes) yields a.txt alone, as a leaf
C5_Witness ==
    /\ WalkDone
    /\ world.tree[<<>>] = <<Item("node_modules", "dir", 0), Item("a.txt", "file", 500)>>
    /\ file_structure = ("a.txt" :> [type |-> "file", size |-> 500])

(***************************************************************************)
(* detect_framework and extract_dependencies on their own, over manifests. *)
(* A requirements file is put together from lines: a blank line, a comment *)
(* (possibly indented), or a requirement: a package name, then nothing or  *)
(* a version specifier (an operator and a version).                        *)
(***************************************************************************)
MaxLines == 2

Name_Django == <<"D", "j", "a", "n", "g", "o">>
PackageNames == {Str_flask, Name_Django, Str_streamlit}

\* the operators of a version specifier in the inputs
Op_eq == <<"=", "=">>
Op_ge == <<">", "=">>
Op_compat == <<"~", "=">>
NoSpecifier == <<>>
SpecifierOps == {NoSpecifier, Op_eq, Op_ge, Op_compat}

ReqLine(kind, pad, name, op) == [kind |-> kind, pad |-> pad, name |-> name, op |-> op]

ReqLines ==
    {ReqLine("blank", <<>>, <<>>, <<>>)}
    \cup {ReqLine("comment", pad, <<>>, <<>>) : pad \in {<<>>, <<" ">>}}
    \cup {ReqLine("req", <<>>, n, op) : n \in PackageNames, op \in SpecifierOps}

RenderLine(l) ==
    IF l.kind = "blank" THEN l.pad
    ELSE IF l.kind = "comment" THEN l.pad \o <<"#", "c">>
    ELSE l.name \o l.op \o (IF l.op = NoSpecifier THEN <<>> ELSE <<"2">>)

\* every line ends with a newline
RenderReq(lines) == Flatten([i \in 1..Len(lines) |-> RenderLine(lines[i]) \o <<"\n">>])

DepMaps ==
    {Absent, NotAMap, Map(<<>>), Map(<<"react">>), Map(<<"vue", "express">>),
     Map(<<"next", "@angular/core", "jest">>)}
NoPkg == [kind |-> "absent", deps |-> Absent, dev |-> Absent]
PkgCases ==
    {NoPkg, [kind |-> "invalid", deps |-> Absent, dev |-> Absent],
     [kind |-> "nonobject", deps |-> Absent, dev |-> Absent]}
    \cup {Pkg(d, v) : d \in DepMaps, v \in DepMaps}

PomCases ==
    {<<>>,
     Pom_app,
     <<"<project>">>,
     <<ArtifactOpen, ArtifactClose, "<dependency>", ArtifactOpen, "core", ArtifactClose,
       ArtifactOpen, "junit", "<", ArtifactClose>>}

ExtraFiles == SUBSET {"manage.py", "build.gradle", "composer.json", "Gemfile"}

\* the requirements files that go with the other manifests
ComboReqs ==
    {<<>>,
     <<ReqLine("comment", <<>>, <<>>, <<>>)>>,
     <<ReqLine("req", <<>>, Str_flask, NoSpecifier)>>,
     <<ReqLine("req", <<>>, Name_Django, Op_eq)>>}

DepCase(lines, pkg, pom, extra) == [lines |-> lines, pkg |-> pkg, pom |-> pom, extra |-> extra]

\* lines = <<>>, pkg = NoPkg, pom = <<>>: the file is not among the contents
\* (analyze_repository keeps no empty content)
DepCases ==
    {DepCase(l, NoPkg, <<>>, {}) : l \in SeqsOf(ReqLines, 1, MaxLines)}
    \cup {DepCase(l, k, m, e) : l \in ComboReqs, k \in PkgCases, m \in PomCases, e \in ExtraFiles}

ContentsOf(c) ==
    LET a == IF c.lines # <<>> THEN DictSet(EmptyDict, "requirements.txt", RenderReq(c.lines))
             ELSE EmptyDict
        b == IF c.pkg # NoPkg THEN DictSet(a, "package.json", c.pkg) ELSE a
    IN  IF c.pom # <<>> THEN DictSet(b, "pom.xml", c.pom) ELSE b

InitDeps ==
    /\ pc = "detect"
    /\ err = NoError
    /\ IdleUrl /\ IdleNet
    /\ repo_info = None /\ languages = None /\ root_contents = None
    /\ flags = None /\ file_idx = Len(important_files) + 1
    /\ manifest_case \in DepCases
    /\ file_contents = ContentsOf(manifest_case)
    /\ file_names = DOMAIN file_contents \cup manifest_case.extra
    /\ framework = None
    /\ dependencies = None
    /\ IdleWalk
    /\ analysis = None
    /\ IdleUi

NextDeps == DetectFramework \/ ExtractDependencies

SpecDeps == InitDeps /\ [][NextDeps]_vars

Detected == pc \in {"extract", "walk"}
Extracted == pc = "walk"

\* the names of the requirement lines, in file order
RECURSIVE NamesOf(_)
NamesOf(lines) ==
    IF lines = <<>> THEN <<>>
    ELSE (IF Head(lines).kind = "req" THEN <<Head(lines).name>> ELSE <<>>)
         \o NamesOf(Tail(lines))

HasRequirements == manifest_case.lines # <<>>

\* C7: under 'Python' stand exactly the package names of the requirement lines, in
\* file order, without their version specifiers; blank and comment lines add nothing.
C7_PythonBareNames ==
    (Extracted /\ HasRequirements)
        => /\ "Python" \in DOMAIN dependencies
           /\ dependencies["Python"] = NamesOf(manifest_case.lines)

\* C8: no group of the result is empty.
C8_NoEmptyGroup ==
    Extracted => \A g \in DOMAIN dependencies : dependencies[g] # <<>>

\* the manifest parsed to an object whose two maps, where present, are mappings
PkgWellFormed ==
    /\ manifest_case.pkg.kind = "object"
    /\ manifest_case.pkg.deps # NotAMap
    /\ manifest_case.pkg.dev # NotAMap

FrameworkPackages ==
    <<[package |-> "react", label |-> "React"],
      [package |-> "vue", label |-> "Vue.js"],
      [package |-> "@angular/core", label |-> "Angular"],
      [package |-> "express", label |-> "Express.js"],
      [package |-> "next", label |-> "Next.js"]>>

\* C9: for a manifest that parses, 'Node.js' is exactly the keys of dependencies and
\* 'Node.js Dev' exactly the keys of devDependencies (a group without keys is absent),
\* and a framework is detected exactly when its package is a key of either map.
C9_NodeGroupsAndFrameworks ==
    PkgWellFormed =>
        LET deps == KeysOf(manifest_case.pkg.deps)
            dev == KeysOf(manifest_case.pkg.dev)
        IN  /\ Extracted =>
                /\ "Node.js" \in DOMAIN dependencies <=> deps # <<>>
                /\ "Node.js" \in DOMAIN dependencies => dependencies["Node.js"] = deps
                /\ "Node.js Dev" \in DOMAIN dependencies <=> dev # <<>>
                /\ "Node.js Dev" \in DOMAIN dependencies => dependencies["Node.js Dev"] = dev
            /\ Detected =>
                \A i \in 1..Len(FrameworkPackages) :
                    FrameworkHas(framework, FrameworkPackages[i].label)
                        <=> FrameworkPackages[i].package \in Range(deps) \cup Range(dev)

\* dependencies {react} and no devDependencies: React, and Node.js = [react] alone
C9_Witness ==
    /\ Extracted
    /\ manifest_case = DepCase(<<>>, Pkg(Map(<<"react">>), Absent), <<>>, {})
    /\ framework = <<"React">>
    /\ dependencies = ("Node.js" :> <<"react">>)

\* the rules in detection order, each with whether it fires on the manifests under test
ReqNames == {lower(manifest_case.lines[i].name) :
                i \in {j \in 1..Len(manifest_case.lines) : manifest_case.lines[j].kind = "req"}}
PkgKeys ==
    IF PkgWellFormed
    THEN Range(KeysOf(manifest_case.pkg.deps)) \cup Range(KeysOf(manifest_case.pkg.dev))
    ELSE {}

Rules ==
    <<[label |-> "React", fires |-> "react" \in PkgKeys],
      [label |-> "Vue.js", fires |-> "vue" \in PkgKeys],
      [label |-> "Angular", fires |-> "@angular/core" \in PkgKeys],
      [label |-> "Express.js", fires |-> "express" \in PkgKeys],
      [label |-> "Next.js", fires |-> "next" \in PkgKeys],
      [label |-> "Django", fires |-> Str_django \in ReqNames],
      [label |-> "Flask", fires |-> Str_flask \in ReqNames],
      [label |-> "FastAPI", fires |-> Str_fastapi \in ReqNames],
      [label |-> "Streamlit", fires |-> Str_streamlit \in ReqNames],
      [label |-> "Django", fires |-> "manage.py" \in file_names],
      [label |-> "Spring Boot", fires |-> {"pom.xml", "build.gradle"} \cap file_names # {}],
      [label |-> "Laravel/PHP", fires |-> "composer.json" \in file_names],
      [label |-> "Ruby on Rails", fires |-> "Gemfile" \in file_names]>>

Fires(rule) == rule.fires
Fired == SelectSeq(Rules, Fires)

\* C10: the result is the labels of the rules that fire, in detection order, one per
\* rule that fires (a label twice when two rules give it), with the separator
\* between them; it is 'Unknown' exactly when no rule fires.
C10_LabelsInDetectionOrder ==
    Detected =>
        /\ Fired = <<>> <=> framework = <<"Unknown">>
        /\ Fired # <<>> =>
              /\ Len(framework) = 2 * Len(Fired) - 1
              /\ \A i \in 1..Len(Fired) : framework[2 * i - 1] = Fired[i].label
              /\ \A i \in 1..(Len(Fired) - 1) : framework[2 * i] = LabelSep

\* django in requirements.txt and a manage.py file: the label twice
C10_Witness ==
    /\ Detected
    /\ framework = <<"Django", LabelSep, "Django">>

(***************************************************************************)
(* generate_setup_instructions on its own, over the fields it reads.       *)
(***************************************************************************)
LanguageSets ==
    {EmptyDict, "Python" :> 900, "JavaScript" :> 100,
     ("Python" :> 900) @@ ("JavaScript" :> 100)}

SetupFlags ==
    {[has_docker |-> d, has_requirements |-> r, has_package_json |-> p, has_setup_py |-> s,
      has_makefile |-> FALSE, has_tests |-> FALSE] : d, r, p, s \in BOOLEAN}

\* results of detect_framework
FrameworkTexts ==
    {<<"Unknown">>, <<"Streamlit">>, <<"Django">>, <<"Flask">>, <<"React">>, <<"Next.js">>,
     <<"Vue.js">>, <<"FastAPI">>,
     <<"Django", LabelSep, "Flask">>, <<"Flask", LabelSep, "Streamlit">>,
     <<"React", LabelSep, "Django">>, <<"Next.js", LabelSep, "Streamlit">>,
     <<"Django", LabelSep, "Django">>}

InitSetup ==
    /\ pc = "assemble"
    /\ err = NoError
    /\ IdleUrl /\ IdleNet
    /\ repo_info = Info("repo")
    /\ languages \in LanguageSets
    /\ root_contents = <<>>
    /\ file_names = NoFiles
    /\ flags \in SetupFlags
    /\ file_idx = Len(important_files) + 1
    /\ manifest_case = None
    /\ file_contents = EmptyDict
    /\ framework \in FrameworkTexts
    /\ dependencies = EmptyDict
    /\ max_depth = DefaultMaxDepth /\ stack = <<>> /\ file_structure = EmptyDict
    /\ analysis = None
    /\ IdleUi

NextSetup == Assemble

SpecSetup == InitSetup /\ [][NextSetup]_vars

Generated == pc = "done"

\* the place of a block in the fixed order, by its prose line
BlockRank(prose) ==
    IF prose = <<"Clone the repository:">> THEN 1
    ELSE IF prose = <<"Set up Python environment:">> THEN 2
    ELSE IF prose \in {<<"Install Python dependencies:">>, <<"Install the package:">>} THEN 3
    ELSE IF prose = <<"Install Node.js dependencies:">> THEN 4
    ELSE IF prose = <<"Docker setup:">> THEN 5
    ELSE IF prose \in {<<"Run Django migrations:">>, <<"Run Flask application:">>,
                       <<"Run Streamlit application:">>, <<"Start development server:">>} THEN 6
    ELSE 0

\* the prose lines of the blocks, in output order
ProseLines(instructions) ==
    [i \in 1..(Len(instructions) \div 2) |-> instructions[2 * i - 1]]

StreamlitExample ==
    /\ flags.has_requirements /\ ~flags.has_docker /\ ~flags.has_package_json
    /\ DOMAIN languages = {"Python"}
    /\ framework = <<"Streamlit">>

StreamlitExpected ==
    << <<"Clone the repository:">>,
       <<Fence, "bash\ngit clone <repository-url>\ncd ", "repo", "\n", Fence>>,
       <<"Set up Python environment:">>,
       <<Fence, "bash\npython -m venv venv\nsource venv/bin/activate  # On Windows: venv\\Scripts\\activate\n", Fence>>,
       <<"Install Python dependencies:">>,
       <<Fence, "bash\npip install -r requirements.txt\n", Fence>>,
       <<"Run Streamlit application:">>,
       <<Fence, "bash\nstreamlit run app.py\n", Fence>> >>

\* C6: the blocks come in the fixed order clone, Python environment, Python install,
\* Node install, Docker, framework run, each at most once and the clone block first;
\* for a Python repository with requirements.txt, framework Streamlit, no Docker
\* and no package manifest the output is exactly clone, venv, pip install, Streamlit.
C6_FixedBlockOrder ==
    Generated =>
        LET prose == ProseLines(analysis.setup_instructions)
        IN  /\ Len(prose) >= 1 /\ BlockRank(prose[1]) = 1
            /\ \A i \in 1..Len(prose) : BlockRank(prose[i]) # 0
            /\ \A i \in 1..(Len(prose) - 1) : BlockRank(prose[i]) < BlockRank(prose[i + 1])
            /\ StreamlitExample => analysis.setup_instructions = StreamlitExpected

C6_Witness ==
    /\ Generated /\ StreamlitExample
    /\ Len(analysis.setup_instructions) = 8
    /\ analysis.setup_instructions[7] = <<"Run Streamlit application:">>

\* the run blocks in priority order: the labels that select one, its prose line and
\* its commands
RunBlocks ==
    <<[labels |-> {"Django"}, prose |-> "Run Django migrations:",
       commands |-> "bash\npython manage.py migrate\npython manage.py runserver\n"],
      [labels |-> {"Flask"}, prose |-> "Run Flask application:",
       commands |-> "bash\nflask run\n# or\npython app.py\n"],
      [labels |-> {"Streamlit"}, prose |-> "Run Streamlit application:",
       commands |-> "bash\nstreamlit run app.py\n"],
      [labels |-> {"React", "Next.js"}, prose |-> "Start development server:",
       commands |-> "bash\nnpm start\n# or\nnpm run dev\n"]>>

\* the run blocks whose labels occur in the framework text, by their priority
Selected == {k \in 1..Len(RunBlocks) : \E l \in RunBlocks[k].labels : FrameworkHas(framework, l)}

\* where the instructions hold the prose line of a run block
RunProseAt ==
    {i \in 1..Len(analysis.setup_instructions) :
        \E k \in 1..Len(RunBlocks) : analysis.setup_instructions[i] = <<RunBlocks[k].prose>>}

\* C14: the instructions hold at most one run block; they hold one exactly when the
\* framework text has Django, Flask, Streamlit, React or Next.js in it, and it is
\* the block of the first of Django, Flask, Streamlit, React/Next.js that occurs.
C14_OneRunBlockByPriority ==
    Generated =>
        /\ Cardinality(RunProseAt) <= 1
        /\ RunProseAt # {} <=> Selected # {}
        /\ \A i \in RunProseAt :
              LET k == CHOOSE m \in Selected : \A n \in Selected : m <= n
              IN  /\ analysis.setup_instructions[i] = <<RunBlocks[k].prose>>
                  /\ i + 1 = Len(analysis.setup_instructions)
                  /\ analysis.setup_instructions[i + 1] = <<Fence, RunBlocks[k].commands, Fence>>

\* "Django, Flask": the Django block and no Flask block
C14_Witness ==
    /\ Generated
    /\ framework = <<"Django", LabelSep, "Flask">>
    /\ \E i \in 1..Len(analysis.setup_instructions) :
          analysis.setup_instructions[i] = <<"Run Django migrations:">>
    /\ \A i \in 1..Len(analysis.setup_instructions) :
          analysis.setup_instructions[i] # <<"Run Flask application:">>

IsProse(instruction) == Len(instruction) = 1 /\ instruction[1] # Fence
IsBlock(instruction) ==
    /\ Len(instruction) >= 3
    /\ instruction[1] = Fence
    /\ instruction[Len(instruction)] = Fence

InstallProseAt ==
    {i \in 1..Len(analysis.setup_instructions) :
        analysis.setup_instructions[i]
            \in {<<"Install Python dependencies:">>, <<"Install the package:">>}}

NothingToInstall ==
    "Python" \in DOMAIN languages /\ ~flags.has_requirements /\ ~flags.has_setup_py

\* C15: the instructions are (prose, block) pairs: an even number of elements, each
\* first of a pair a prose line, each second a fenced block; at most one of the two
\* Python install blocks is there, and none for a Python repository without
\* requirements.txt and setup.py.
C15_ProseBlockPairs ==
    Generated =>
        LET ins == analysis.setup_instructions
        IN  /\ Len(ins) % 2 = 0
            /\ \A i \in 1..Len(ins) : IF i % 2 = 1 THEN IsProse(ins[i]) ELSE IsBlock(ins[i])
            /\ Cardinality(InstallProseAt) <= 1
            /\ NothingToInstall => InstallProseAt = {}

\* a Python repository with neither file: clone and environment, two whole pairs
C15_Witness ==
    /\ Generated /\ NothingToInstall
    /\ DOMAIN languages = {"Python"}
    /\ ~flags.has_docker /\ ~flags.has_package_json
    /\ framework = <<"Unknown">>
    /\ Len(analysis.setup_instructions) = 4
    /\ analysis.setup_instructions[3] = <<"Set up Python environment:">>

(***************************************************************************)
(* A session on the page: clicks on 'Analyze Repository', each with the    *)
(* texts of the token and URL inputs and the repository the URL names, and *)
(* clicks on 'Export Analysis'.                                            *)
(***************************************************************************)
MaxClicks == 2

UiTokens == {"", "ghp_token"}
UiUrls == {<<>>} \cup {RenderUrl(c) : c \in AnalysisUrls}

UiRoot ==
    <<Item("requirements.txt", "file", 20), Item("link", "symlink", 9),
      Item("Dockerfile", "file", 70)>>
UiWorlds == {World(TreeOf(3, UiRoot, <<>>))}

\* a call of analyze_repository starts: its locals are fresh
StartAnalysis(url, w) ==
    /\ pc' = "parse" /\ err' = NoError
    /\ url_case' = None /\ github_url' = url /\ parsed' = NotCalled
    /\ world' = w /\ requests' = <<>>
    /\ repo_info' = None /\ languages' = None /\ root_contents' = None
    /\ file_names' = NoFiles /\ flags' = None /\ file_idx' = 1
    /\ manifest_case' = None /\ file_contents' = EmptyDict
    /\ framework' = None /\ dependencies' = None
    /\ max_depth' = DefaultMaxDepth /\ stack' = <<>> /\ file_structure' = None
    /\ analysis' = None

NoAnalysisStep ==
    UNCHANGED <<pc, err, urlVars, netVars, fetchVars, depVars, walkVars, analysis>>

\* app.py lines 266-274 and 308-316: a run of the script with the button pressed
ClickAnalyze ==
    /\ ui = "idle" /\ clicks < MaxClicks
    /\ \E token_text \in UiTokens, text \in UiUrls, w \in UiWorlds :
        /\ clicks' = clicks + 1
        /\ github_token' = IF token_text # "" THEN token_text ELSE github_token
        /\ repo_url' = text
        /\ download' = NoDownload
        /\ UNCHANGED analysis_result
        /\ IF github_token' = ""
           THEN /\ message' = <<"Please enter your GitHub token in the sidebar">>
                /\ ui' = "idle"
                /\ NoAnalysisStep
           ELSE IF repo_url' = <<>>
           THEN /\ message' = <<"Please enter a GitHub repository URL">>
                /\ ui' = "idle"
                /\ NoAnalysisStep
           ELSE /\ message' = <<"Analyzing repository...">>
                /\ ui' = "analyzing"
                /\ StartAnalysis(text, w)

\* an except branch that also forgets the stored result
AnalyzeRaise_ClearsResult ==
    /\ ui = "analyzing" /\ pc = "failed"
    /\ analysis_result' = NoResult
    /\ message' = <<"Analysis Failed:", err>>
    /\ ui' = "idle"
    /\ NoAnalysisStep
    /\ UNCHANGED <<clicks, github_token, repo_url, download>>

\* app.py lines 317-323: analyze_repository returned
AnalyzeReturn ==
    /\ ui = "analyzing" /\ pc = "done"
    /\ analysis_result' = analysis
    /\ message' = <<"Analysis Complete!", analysis.name>>
    /\ ui' = "idle"
    /\ NoAnalysisStep
    /\ UNCHANGED <<clicks, github_token, repo_url, download>>

\* app.py lines 324-329: analyze_repository raised
AnalyzeRaise ==
    /\ ui = "analyzing" /\ pc = "failed"
    /\ message' = <<"Analysis Failed:", err>>
    /\ ui' = "idle"
    /\ NoAnalysisStep
    /\ UNCHANGED <<clicks, github_token, repo_url, analysis_result, download>>

\* app.py lines 331-372: a run of the script with 'Export Analysis' pressed
ExportAnalysis ==
    /\ ui = "idle"
    /\ analysis_result # NoResult
    /\ download' = [file_name |-> <<analysis_result.name, "_analysis.json">>,
                    data |-> dumps(analysis_dict(analysis_result))]
    /\ message' = <<>>
    /\ NoAnalysisStep
    /\ UNCHANGED <<ui, clicks, github_token, repo_url, analysis_result>>

InitUi ==
    /\ pc = "idle"
    /\ err = NoError
    /\ IdleUrl /\ IdleNet /\ IdleFetch /\ IdleDeps /\ IdleWalk
    /\ analysis = None
    /\ IdleUi

NextUi ==
    \/ ClickAnalyze
    \/ Next
    \/ AnalyzeReturn
    \/ AnalyzeRaise
    \/ ExportAnalysis

SpecUi == InitUi /\ [][NextUi]_vars

\* the members of the document on offer, by key
ExportedKeys == {download.data[i].key : i \in 1..Len(download.data)}

\* C12: the document offered by 'Export Analysis' has a member for every field of
\* the stored RepoAnalysis, file_structure and setup_instructions among them, each
\* with the value of the field.
C12_ExportHasEveryField ==
    download # NoDownload =>
        /\ ExportedKeys = DOMAIN analysis_result
        /\ \A i \in 1..Len(download.data) :
              download.data[i].value
                  = ToJson(download.data[i].key, analysis_result[download.data[i].key])

\* C16: the stored result is None until an analysis returns; a step stores the
\* RepoAnalysis returned when analyze_repository returns inside the click, and every
\* other step (a click without token or URL, analyze_repository raising, an export)
\* leaves the stored result as it was.
C16_StoredResultIsLastSuccess ==
    /\ [](clicks = 0 => analysis_result = NoResult)
    /\ [][IF ui = "analyzing" /\ pc = "done"
          THEN analysis_result' = analysis
          ELSE analysis_result' = analysis_result]_vars

\* an analysis returned and was stored; a later click raised, the result is still
\* stored and 'Export Analysis' can be pressed
C16_Witness ==
    /\ clicks = 2 /\ ui = "idle"
    /\ pc = "failed" /\ analysis = None
    /\ message = <<"Analysis Failed:", ConnectionError>>
    /\ analysis_result # NoResult
    /\ analysis_result.name = "repo"

====
